---- MODULE Spec2Model ----
(***************************************************************************)
(* One invocation of the ytdownloader command line: the download, edit,   *)
(* extract-audio, info and formats commands of cli.py, the retrieval      *)
(* adapter of downloader.py and the transform adapter of editor.py.       *)
(*                                                                         *)
(* Strings are sequences of tokens: a token is a separator ("/", ".",     *)
(* "-", ":", "x", "p", "//") or a run of other characters.  The empty     *)
(* string is <<>>.  An optional value is None (<<>>) or Some(v) (<<v>>).   *)
(* The two external engines (yt-dlp, ffmpeg) are nondeterministic: every  *)
(* blocking call may return, raise, or be interrupted by the user.        *)
(***************************************************************************)
EXTENDS Integers, Sequences, FiniteSets, TLC

VARIABLES
    cmd,              \* the command click dispatched to
    args,             \* the parsed command-line flags
    pc,               \* position of the invocation in its handler
    calls,            \* every blocking call made so far, in order
    fs,               \* complete media files present on disk
    written,          \* files this invocation has completely written
    removed,          \* files this invocation has deleted (os.remove)
    hook_file,        \* progress_hook's nonlocal downloaded_file
    events,           \* number of progress events the engine delivered
    finished,         \* number of them with status 'finished'
    last_event,       \* the last progress event delivered, if any
    last_finished,    \* the filename of the last 'finished' event, if any
    percent,          \* the last percentage progress_hook printed, if any
    downloaded_file,  \* download(): the path the downloader returned
    output,           \* edit(): the local `output`
    final_output,     \* edit(): the local `final_output`
    operations,       \* edit(): the local `operations`
    console,          \* messages printed, in order
    exit_status,      \* None while running, Some(code) once exited
    unit,             \* the function called on its own, "" in an invocation
    unit_arg,         \* the argument it is called with
    unit_results      \* what its successive calls returned

vars == <<cmd, args, pc, calls, fs, written, removed, hook_file, events,
          finished, last_event, last_finished, percent, downloaded_file,
          output, final_output, operations, console, exit_status,
          unit, unit_arg, unit_results>>

----------------------------------------------------------------------------
(* Optional values and strings *)

None == <<>>
Some(v) == <<v>>

\* Python truthiness of an Optional[float]: None and 0.0 are false.
TruthyNum(o) == o # None /\ o[1] # 0
\* Python truthiness of an Optional[str]: None and "" are false.
TruthyStr(o) == o # None /\ o[1] # <<>>

\* Position of the first / last occurrence of token t in s, 0 when absent.
IndexOf(s, t) ==
    IF \E i \in 1..Len(s) : s[i] = t
    THEN CHOOSE i \in 1..Len(s) : s[i] = t /\ \A j \in 1..(i-1) : s[j] # t
    ELSE 0
LastIndexOf(s, t) ==
    IF \E i \in 1..Len(s) : s[i] = t
    THEN CHOOSE i \in 1..Len(s) : s[i] = t /\ \A j \in (i+1)..Len(s) : s[j] # t
    ELSE 0

\* str.split(sep)
RECURSIVE Split(_, _)
Split(s, sep) ==
    LET i == IndexOf(s, sep)
    IN  IF i = 0 THEN <<s>>
        ELSE <<SubSeq(s, 1, i-1)>> \o Split(SubSeq(s, i+1, Len(s)), sep)

\* str.endswith for a suffix given as tokens
EndsWith(s, suf) ==
    Len(s) >= Len(suf) /\ SubSeq(s, Len(s) - Len(suf) + 1, Len(s)) = suf

\* float(text) / int(text): the numerals the inputs use, with an optional
\* leading minus sign; any other text raises ValueError.
NumeralValue ==
    [t \in {"0", "1", "2", "5", "10", "30", "40", "45", "720", "1280"} |->
        CASE t = "0" -> 0 [] t = "1" -> 1 [] t = "2" -> 2 [] t = "5" -> 5
          [] t = "10" -> 10 [] t = "30" -> 30 [] t = "40" -> 40
          [] t = "45" -> 45 [] t = "720" -> 720 [] t = "1280" -> 1280]
IsNumeral(part) ==
    \/ Len(part) = 1 /\ part[1] \in DOMAIN NumeralValue
    \/ Len(part) = 2 /\ part[1] = "-" /\ part[2] \in DOMAIN NumeralValue
NumberOf(part) ==
    IF Len(part) = 1 THEN NumeralValue[part[1]] ELSE 0 - NumeralValue[part[2]]

----------------------------------------------------------------------------
(* Paths: pathlib.Path and os.path on token strings *)

\* Path(p).name
PathName(p) == SubSeq(p, LastIndexOf(p, "/") + 1, Len(p))
\* Path(p).parent, <<>> standing for "."
PathParent(p) ==
    LET i == LastIndexOf(p, "/") IN IF i = 0 THEN <<>> ELSE SubSeq(p, 1, i-1)
\* Path(p).suffix: from the last dot of the name, unless the dot is its
\* first or its last character
PathSuffix(p) ==
    LET n == PathName(p)
        i == LastIndexOf(n, ".")
    IN  IF 1 < i /\ i < Len(n) THEN SubSeq(n, i, Len(n)) ELSE <<>>
\* Path(p).stem
PathStem(p) ==
    LET n == PathName(p)
        i == LastIndexOf(n, ".")
    IN  IF 1 < i /\ i < Len(n) THEN SubSeq(n, 1, i-1) ELSE n
\* str(parent / name)
PathJoin(parent, name) ==
    IF parent = <<>> THEN name ELSE parent \o <<"/">> \o name
\* os.path.splitext(p)[0]: cut at the last dot of the last component, when a
\* character other than a dot precedes it
SplitExtRoot(p) ==
    LET b == LastIndexOf(p, "/")
        n == PathName(p)
        i == LastIndexOf(n, ".")
    IN  IF i > 0 /\ (\E j \in 1..(i-1) : n[j] # ".")
        THEN SubSeq(p, 1, b + i - 1) ELSE p

\* Mutant of generate_output_filename: the suffix is left out of the name.
generate_output_filename_plain(input_file, suffix, extension, output_dir) ==
    LET base_name == PathStem(input_file)
        ext0 == IF extension # <<>> THEN extension ELSE PathSuffix(input_file)
        ext == IF Len(ext0) > 0 /\ ext0[1] = "." THEN ext0 ELSE <<".">> \o ext0
        new_filename == base_name \o ext
    IN  IF output_dir # <<>> THEN PathJoin(output_dir, new_filename)
        ELSE PathJoin(PathParent(input_file), new_filename)

\* utils.generate_output_filename
generate_output_filename(input_file, suffix, extension, output_dir) ==
    LET base_name == PathStem(input_file)
        ext0 == IF extension # <<>> THEN extension ELSE PathSuffix(input_file)
        ext == IF Len(ext0) > 0 /\ ext0[1] = "." THEN ext0 ELSE <<".">> \o ext0
        new_filename == base_name \o suffix \o ext
    IN  IF output_dir # <<>> THEN PathJoin(output_dir, new_filename)
        ELSE PathJoin(PathParent(input_file), new_filename)

----------------------------------------------------------------------------
(* editor.parse_time, editor.parse_time_range *)

\* parse_time: [err |-> TRUE] stands for the ValueError it raises.
parse_time(time_str) ==
    LET parts == Split(time_str, ":")
        bad == [err |-> TRUE, val |-> 0]
    IN  IF \E i \in 1..Len(parts) : ~IsNumeral(parts[i]) THEN bad
        ELSE IF Len(parts) = 1 THEN [err |-> FALSE, val |-> NumberOf(parts[1])]
        ELSE IF Len(parts) = 2
             THEN [err |-> FALSE,
                   val |-> NumberOf(parts[1]) * 60 + NumberOf(parts[2])]
        ELSE IF Len(parts) = 3
             THEN [err |-> FALSE,
                   val |-> NumberOf(parts[1]) * 3600 + NumberOf(parts[2]) * 60
                           + NumberOf(parts[3])]
        ELSE bad

\* parse_time_range: split at the first "-", parse each non-empty side;
\* [err |-> TRUE] stands for the ValueError, msg for its text, names for the
\* string the text quotes.
parse_time_range(time_range) ==
    LET i == IndexOf(time_range, "-")
        start_str == SubSeq(time_range, 1, i-1)
        end_str == SubSeq(time_range, i+1, Len(time_range))
        s == parse_time(start_str)
        e == parse_time(end_str)
        bad(msg, names) == [err |-> TRUE, msg |-> msg, names |-> names,
                            start |-> None, end |-> None]
    IN  IF i = 0 THEN bad("Error: Invalid time range format", time_range)
        ELSE IF start_str # <<>> /\ s.err
             THEN bad("Error: Invalid time format", start_str)
        ELSE IF end_str # <<>> /\ e.err
             THEN bad("Error: Invalid time format", end_str)
        ELSE [err |-> FALSE, msg |-> "", names |-> <<>>,
              start |-> IF start_str # <<>> THEN Some(s.val) ELSE None,
              end |-> IF end_str # <<>> THEN Some(e.val) ELSE None]

----------------------------------------------------------------------------
(* downloader.validate_youtube_url *)

youtube_domains == {"youtube.com", "www.youtube.com", "youtu.be", "m.youtube.com"}

\* str.lower() on the host tokens the inputs use
Lower(t) ==
    CASE t = "YOUTU.BE" -> "youtu.be"
      [] t = "WWW.YouTube.com" -> "www.youtube.com"
      [] OTHER -> t

\* urlparse(url).netloc: what follows "//" (right after the scheme, or first)
\* up to the next "/"; empty when the URL has no "//" there.
Netloc(url) ==
    LET i == IndexOf(url, "//")
        rest == SubSeq(url, i+1, Len(url))
        j == IndexOf(rest, "/")
    IN  IF i = 0 \/ i > 2 THEN <<>>
        ELSE IF j = 0 THEN rest ELSE SubSeq(rest, 1, j-1)

validate_youtube_url(url) ==
    LET netloc == Netloc(url)
    IN  Len(netloc) = 1 /\ Lower(netloc[1]) \in youtube_domains

----------------------------------------------------------------------------
(* Blocking calls and their log *)

\* One entry of the log: a call to an engine, or the interactive prompt.
\* kind: "fetch" (yt-dlp extract_info), "download" (yt-dlp download),
\* "check" (ffmpeg.probe('dummy')), "probe" (ffmpeg.probe of a file),
\* "trim", "convert", "resize", "extract" (ffmpeg.run), "prompt" (input()).
\* start, end, duration, scale, width, height are the arguments of a
\* transcode; on a "probe" that returned, duration is the duration it read.
Call(kind, src, dst, result) ==
    [kind |-> kind, src |-> src, dst |-> dst, result |-> result,
     start |-> None, end |-> None, duration |-> None,
     vcodec |-> "", acodec |-> "", bitrate |-> "",
     scale |-> None, width |-> None, height |-> None]

Outcomes == {"ok", "fail", "interrupt"}
TranscodeKinds == {"trim", "convert", "resize", "extract"}

\* What an operation of an adapter hands back: it returned ("ok"), raised
\* an Exception ("error", err names it) or was interrupted
\* (KeyboardInterrupt, which no `except Exception` catches).
\* err is the exception's type, msg the line the command prints for it.
Raise(err, msg) == [res |-> "error", err |-> err, msg |-> msg, calls |-> <<>>]
Ran(call, msg) ==
    [res |-> IF call.result = "ok" THEN "ok"
             ELSE IF call.result = "fail" THEN "error" ELSE "interrupt",
     err |-> IF call.result = "fail" THEN "RuntimeError" ELSE "",
     msg |-> IF call.result = "fail" THEN msg ELSE "",
     calls |-> <<call>>]
Returned == [res |-> "ok", err |-> "", msg |-> "", calls |-> <<>>]

----------------------------------------------------------------------------
(* editor.VideoEditor *)

\* VideoEditor.__init__ / _check_ffmpeg: probe a dummy path; ffmpeg.Error is
\* expected ("ok"), FileNotFoundError ("fail") means no ffmpeg binary.
VideoEditor_init(oc) ==
    Ran(Call("check", <<"dummy">>, <<>>, oc), "Error: FFmpeg not found")

\* VideoEditor.get_video_info: pr is the probe's outcome and the duration it
\* reports.
VideoEditor_get_video_info(input_file, pr) ==
    [res |-> IF pr.result = "ok" THEN "ok"
             ELSE IF pr.result = "fail" THEN "error" ELSE "interrupt",
     err |-> IF pr.result = "fail" THEN "RuntimeError" ELSE "",
     msg |-> IF pr.result = "fail" THEN "Error: Failed to get video info"
             ELSE "",
     calls |-> <<[Call("probe", input_file, <<>>, pr.result) EXCEPT
                    !.duration = IF pr.result = "ok" THEN Some(pr.duration)
                                 ELSE None]>>,
     duration |-> pr.duration]

\* VideoEditor.trim_video
trim_video(files, input_file, output_file, start, end, duration, oc) ==
    IF input_file \notin files THEN Raise("FileNotFoundError", "Error: Input file not found")
    ELSE IF start = None /\ end = None /\ duration = None
         THEN Raise("ValueError", "Error: At least one of start, end, or duration")
    ELSE IF end # None /\ duration # None
         THEN Raise("ValueError", "Error: Cannot specify both end time and duration")
    ELSE Ran([Call("trim", input_file, output_file, oc) EXCEPT
                 !.start = start, !.end = end, !.duration = duration,
                 !.vcodec = "libx264", !.acodec = "aac"],
             "Error: FFmpeg error during trimming")

\* VideoEditor.remove_start
remove_start(files, input_file, output_file, seconds, oc) ==
    trim_video(files, input_file, output_file, Some(seconds), None, None, oc)

\* Mutant of remove_end: the refusal uses `end_time < 0`, so removing the
\* whole video is passed on as a trim to end = 0.
remove_end_strict(files, input_file, output_file, seconds, pr, oc) ==
    LET info == VideoEditor_get_video_info(input_file, pr)
        end_time == info.duration - seconds
        t == trim_video(files, input_file, output_file, None, Some(end_time),
                        None, oc)
    IN  IF info.res # "ok"
        THEN [res |-> info.res, err |-> info.err, msg |-> info.msg,
              calls |-> info.calls]
        ELSE IF end_time < 0
        THEN [Raise("ValueError", "Error: Cannot remove") EXCEPT
                 !.calls = info.calls]
        ELSE [t EXCEPT !.calls = info.calls \o t.calls]

\* VideoEditor.remove_end: the probe, the refusal, the delegation to
\* trim_video
remove_end(files, input_file, output_file, seconds, pr, oc) ==
    LET info == VideoEditor_get_video_info(input_file, pr)
        end_time == info.duration - seconds
        t == trim_video(files, input_file, output_file, None, Some(end_time),
                        None, oc)
    IN  IF info.res # "ok"
        THEN [res |-> info.res, err |-> info.err, msg |-> info.msg,
              calls |-> info.calls]
        ELSE IF end_time <= 0
        THEN [Raise("ValueError", "Error: Cannot remove") EXCEPT
                 !.calls = info.calls]
        ELSE [t EXCEPT !.calls = info.calls \o t.calls]

\* VideoEditor.convert_format (the CLI never passes crf)
convert_format(files, input_file, output_file, video_codec, audio_codec, oc) ==
    IF input_file \notin files THEN Raise("FileNotFoundError", "Error: Input file not found")
    ELSE Ran([Call("convert", input_file, output_file, oc) EXCEPT
                 !.vcodec = video_codec, !.acodec = audio_codec],
             "Error: FFmpeg error during conversion")

\* VideoEditor.extract_audio
extract_audio(files, input_file, output_file, format, oc) ==
    IF input_file \notin files THEN Raise("FileNotFoundError", "Error: Input file not found")
    ELSE Ran([Call("extract", input_file, output_file, oc) EXCEPT
                 !.acodec = IF format = "mp3" THEN "mp3" ELSE format,
                 !.bitrate = "192k"],
             "Error: FFmpeg error during audio extraction")

\* VideoEditor.resize_video: the scale table
scale_map(scale) ==
    CASE scale = <<"720">> -> <<"hd720">>
      [] scale = <<"1080">> -> <<"hd1080">>
      [] scale = <<"hd720">> -> <<"hd720">>
      [] scale = <<"hd1080">> -> <<"hd1080">>
      [] scale = <<"480">> -> <<"854", ":", "480">>
      [] scale = <<"360">> -> <<"640", ":", "360">>
      [] OTHER -> scale

\* VideoEditor.resize_video: width and height are Optional[int], scale an
\* Optional[str]
resize_video(files, input_file, output_file, width, height, scale, oc) ==
    IF input_file \notin files THEN Raise("FileNotFoundError", "Error: Input file not found")
    ELSE IF ~(TruthyNum(width) \/ TruthyNum(height) \/ TruthyStr(scale))
         THEN Raise("ValueError", "Error: Must specify width, height, or scale")
    ELSE IF TruthyStr(scale)
         THEN Ran([Call("resize", input_file, output_file, oc) EXCEPT
                      !.scale = Some(scale_map(scale[1])),
                      !.vcodec = "libx264", !.acodec = "copy"],
                  "Error: FFmpeg error during resize")
    ELSE Ran([Call("resize", input_file, output_file, oc) EXCEPT
                 !.width = IF TruthyNum(width) THEN width ELSE Some(-1),
                 !.height = IF TruthyNum(height) THEN height ELSE Some(-1),
                 !.vcodec = "libx264", !.acodec = "copy"],
             "Error: FFmpeg error during resize")

----------------------------------------------------------------------------
(* downloader.YouTubeDownloader *)

\* The selector string of a resolution token Np in quality_map
\* (downloader.py 46-51): four alternatives separated by "/"
HeightSelector(n) ==
    <<"bv*", "[height<=", n, "]", "+", "ba", "/",
      "b", "[height<=", n, "]", "/",
      "wv*", "[height<=", n, "]", "+", "wa", "/",
      "w", "[height<=", n, "]">>

Heights == {"144", "240", "360", "480", "720", "1080"}

\* Mutant of _parse_quality: an unknown token falls back to the selector of
\* 'best' instead of passing through.
parse_quality_default(quality) ==
    CASE quality = <<"best">> -> <<"bv*", "+", "ba", "/", "b">>
      [] quality = <<"worst">> -> <<"wv*", "+", "wa", "/", "w">>
      [] quality = <<"audio">> -> <<"ba", "/", "best">>
      [] Len(quality) = 2 /\ quality[1] \in Heights /\ quality[2] = "p" ->
            HeightSelector(quality[1])
      [] OTHER -> <<"bv*", "+", "ba", "/", "b">>

\* YouTubeDownloader._parse_quality: quality_map.get(quality, quality)
_parse_quality(quality) ==
    CASE quality = <<"best">> -> <<"bv*", "+", "ba", "/", "b">>
      [] quality = <<"worst">> -> <<"wv*", "+", "wa", "/", "w">>
      [] quality = <<"audio">> -> <<"ba", "/", "best">>
      [] Len(quality) = 2 /\ quality[1] \in Heights /\ quality[2] = "p" ->
            HeightSelector(quality[1])
      [] OTHER -> quality

\* YouTubeDownloader.get_video_info: one metadata fetch
YouTubeDownloader_get_video_info(url, oc) ==
    Ran(Call("fetch", url, <<>>, oc), "Error: Failed to extract video info")

\* YouTubeDownloader.list_formats: fetches the metadata itself
list_formats(url, oc) ==
    LET info == YouTubeDownloader_get_video_info(url, oc)
    IN  IF info.res = "error"
        THEN [info EXCEPT !.msg = "Error: Failed to list formats"] ELSE info

\* Mutant of progress_hook: only the first 'finished' event is captured.
progress_hook_first(d, captured) ==
    IF d.status = "finished"
    THEN [raised |-> FALSE,
          file |-> IF captured = None THEN Some(d.filename) ELSE captured,
          printed |-> None]
    ELSE IF d.status = "downloading" /\ d.has_total /\ d.has_downloaded
    THEN IF d.total = None \/ d.total = Some(0)
         THEN [raised |-> TRUE, file |-> captured, printed |-> None]
         ELSE [raised |-> FALSE, file |-> captured,
               printed |-> Some((d.downloaded * 100) \div d.total[1])]
    ELSE [raised |-> FALSE, file |-> captured, printed |-> None]

\* progress_hook of download and download_audio_only, given event d and the
\* captured file so far: the captured file after it, what it printed, and
\* whether it raised (a total of None or 0 under the 'total_bytes' key).
progress_hook(d, captured) ==
    IF d.status = "finished"
    THEN [raised |-> FALSE, file |-> Some(d.filename), printed |-> None]
    ELSE IF d.status = "downloading" /\ d.has_total /\ d.has_downloaded
    THEN IF d.total = None \/ d.total = Some(0)
         THEN [raised |-> TRUE, file |-> captured, printed |-> None]
         ELSE [raised |-> FALSE, file |-> captured,
               printed |-> Some((d.downloaded * 100) \div d.total[1])]
    ELSE [raised |-> FALSE, file |-> captured, printed |-> None]

\* YouTubeDownloader.download, after ydl.download returned: the captured
\* path, or the RuntimeError when none was captured.
download_result(captured) ==
    IF TruthyStr(captured) THEN [res |-> "ok", path |-> captured[1]]
    ELSE [res |-> "error", path |-> <<>>]

\* YouTubeDownloader.download_audio_only, after ydl.download returned: the
\* .mp3 beside the captured path when it exists, else the captured path.
download_audio_only_result(captured, files) ==
    LET mp3_file == SplitExtRoot(captured[1]) \o <<".", "mp3">>
    IN  IF TruthyStr(captured)
        THEN [res |-> "ok",
              path |-> IF mp3_file \in files THEN mp3_file ELSE captured[1]]
        ELSE [res |-> "error", path |-> <<>>]

\* utils.confirm_action: the answer typed at the prompt; Ctrl-C and end of
\* input are caught and count as False.
confirm_action(response, default) ==
    IF response \in {"interrupt", "eof"} THEN FALSE
    ELSE IF response = "empty" THEN default
    ELSE response = "yes"

----------------------------------------------------------------------------
(* Inputs *)

\* Bound on the progress events of one download.
MaxEvents == 2

Commands == {"download", "edit", "extract_audio", "info", "formats"}

Urls ==
    { <<"https:", "//", "youtube.com", "/", "watch">>,
      <<"https:", "//", "YOUTU.BE", "/", "abc">>,
      <<"https:", "//", "example.com", "/", "watch">>,
      <<"https:", "//", "youtube.com", ":", "443", "/", "watch">>,
      <<"youtube.com", "/", "watch">> }

\* --trim-start / --trim-end values (seconds) and --trim strings
TrimSeconds == {0, 5}
TrimStrings ==
    { <<>>,
      <<"10", "-", "40">>,
      <<"1", ":", "30", "-", "2", ":", "45">>,
      <<"10", "-">>,
      <<"-", "30">>,
      <<"-">>,
      <<"abc">>,
      <<"10", "-", "abc">> }

\* Durations (seconds) a probe may report
ProbeDurations == {2, 5, 65}

\* Files the extraction engine may name in a 'finished' event or leave as
\* its final output
EngineFiles ==
    { <<"downloads", "/", "video", ".", "mp4">>,
      <<"downloads", "/", "video", ".", "f140", ".", "m4a">>,
      <<"downloads", "/", "video", ".", "mp3">> }

ProgressEvents ==
    { [status |-> "finished", filename |-> f, has_total |-> FALSE,
       has_downloaded |-> FALSE, total |-> None, downloaded |-> 0]
        : f \in EngineFiles }
    \cup
    { [status |-> "downloading", filename |-> <<>>, has_total |-> h,
       has_downloaded |-> TRUE, total |-> t, downloaded |-> 1]
        : h \in BOOLEAN, t \in {None, Some(0), Some(4)} }

InputFiles ==
    { <<"clip", ".", "mp4">>,
      <<"d", "/", "clip", ".", "webm">>,
      <<"d", "/", "clip">> }
OutputPaths ==
    { <<>>,
      <<"out", ".", "mp4">>,
      <<"clip", ".", "mp4">> }
ConvertFormats == {"mp4", "avi", "mkv", "mov", "webm"}
AudioFormats == {"mp3", "wav", "aac", "flac"}
ResizeStrings ==
    { <<"720", "p">>,
      <<"480", "p">>,
      <<"1280", "x", "720">>,
      <<"0", "x", "720">>,
      <<"0", "x", "0">>,
      <<"1280", "x", "720", "x", "2">>,
      <<"abc", "x", "def">>,
      <<"big">> }
Answers == {"yes", "no", "empty", "interrupt", "eof"}

Opt(S) == {None} \cup {Some(v) : v \in S}

NoArgs ==
    [url |-> <<>>, trim_start |-> None, trim_end |-> None, trim |-> None,
     audio_only |-> FALSE, info_only |-> FALSE, list_formats |-> FALSE,
     input_file |-> <<>>, output |-> <<>>, extract_audio |-> FALSE,
     convert_to |-> "", resize |-> None, info |-> FALSE, format |-> "mp3"]

ArgsOf(c) ==
    CASE c = "download" ->
            { [NoArgs EXCEPT !.url = u, !.trim_start = ts, !.trim_end = te,
                             !.trim = tr, !.audio_only = a, !.info_only = i,
                             !.list_formats = l]
                : u \in Urls, ts \in Opt(TrimSeconds), te \in Opt(TrimSeconds),
                  tr \in Opt(TrimStrings), a \in BOOLEAN, i \in BOOLEAN,
                  l \in BOOLEAN }
      [] c = "edit" ->
            { [NoArgs EXCEPT !.input_file = f, !.output = o, !.trim_start = ts,
                             !.trim_end = te, !.trim = tr,
                             !.extract_audio = x[1], !.info = x[2],
                             !.convert_to = cv, !.resize = rs]
                : f \in InputFiles, o \in OutputPaths,
                  ts \in Opt(TrimSeconds), te \in Opt(TrimSeconds),
                  tr \in Opt(TrimStrings), x \in BOOLEAN \X BOOLEAN,
                  cv \in {""} \cup ConvertFormats, rs \in Opt(ResizeStrings) }
      [] c = "extract_audio" ->
            { [NoArgs EXCEPT !.input_file = f, !.output = o, !.format = fm]
                : f \in InputFiles, o \in OutputPaths, fm \in AudioFormats }
      [] OTHER -> { [NoArgs EXCEPT !.url = u] : u \in Urls }

Init ==
    /\ cmd \in Commands
    /\ args \in ArgsOf(cmd)
    /\ pc = "start"
    /\ calls = <<>>
    \* click.Path(exists=True): edit and extract-audio start with the input
    \* file on disk
    /\ fs = IF args.input_file = <<>> THEN {} ELSE {args.input_file}
    /\ written = {}
    /\ removed = {}
    /\ hook_file = None
    /\ events = 0
    /\ finished = 0
    /\ last_event = None
    /\ last_finished = None
    /\ percent = None
    /\ downloaded_file = <<>>
    /\ output = args.output
    /\ final_output = <<>>
    /\ operations = <<>>
    /\ console = <<>>
    /\ exit_status = None
    /\ unit = "" /\ unit_arg = <<>> /\ unit_results = <<>>

----------------------------------------------------------------------------
(* Leaving the invocation *)

\* sys.exit(code) after printing msgs
Exit(code, msgs) ==
    /\ exit_status' = Some(code)
    /\ pc' = "done"
    /\ console' = console \o msgs

\* Mutant of Fail: the handlers print the error and return without
\* sys.exit(1), so the process ends with status 0.
Fail_no_exit(r) ==
    Exit(0, IF r.res = "interrupt" THEN <<"Operation cancelled by user">>
            ELSE <<r.msg>>)

\* A command's `except Exception` handler (print the error, sys.exit(1)) for
\* a raised Exception; main()'s `except KeyboardInterrupt` handler for an
\* interrupt, which passes every `except Exception`.
Fail(r) ==
    Exit(1, IF r.res = "interrupt" THEN <<"Operation cancelled by user">>
            ELSE <<r.msg>>)

\* Mutant of MultipleTrim: counts the truthy options (`if opt`) instead of
\* the supplied ones (`is not None`), so 0 and "" do not count.
MultipleTrim_truthy(a) ==
    Cardinality({i \in 1..3 :
        <<TruthyNum(a.trim_start), TruthyNum(a.trim_end), TruthyStr(a.trim)>>[i]})
        > 1

\* More than one of --trim-start, --trim-end, --trim was given.
MultipleTrim(a) ==
    Cardinality({i \in 1..3 : <<a.trim_start, a.trim_end, a.trim>>[i] # None}) > 1

\* The effect of a finished transcode on the disk
Produced(r) ==
    { r.calls[i].dst : i \in { j \in 1..Len(r.calls) :
          r.calls[j].kind \in TranscodeKinds /\ r.calls[j].result = "ok" } }

----------------------------------------------------------------------------
(* cli.download *)

DownloadUnchanged ==
    UNCHANGED <<cmd, args, output, final_output, operations,
                unit, unit_arg, unit_results>>

\* cli.py 110-120: URL validation, then the trim-option check
DownloadValidate ==
    /\ pc = "start" /\ cmd = "download"
    /\ IF ~validate_youtube_url(args.url)
       THEN Exit(1, <<"Invalid YouTube URL">>)
       ELSE IF MultipleTrim(args)
       THEN Exit(1, <<"Cannot specify multiple trim options">>)
       ELSE /\ pc' = "dl_init"
            /\ UNCHANGED <<console, exit_status>>
    /\ UNCHANGED <<calls, fs, written, removed, hook_file, events, finished,
                   last_event, last_finished, percent, downloaded_file>>
    /\ DownloadUnchanged

\* cli.py 124-125: ensure_directory and YouTubeDownloader(), which create
\* the output directory or raise
DownloadInit ==
    /\ pc = "dl_init"
    /\ \E oc \in {"ok", "fail"} :
          IF oc = "ok"
          THEN pc' = "dl_info" /\ UNCHANGED <<console, exit_status>>
          ELSE Fail(Raise("OSError", "Error: cannot create directory"))
    /\ UNCHANGED <<calls, fs, written, removed, hook_file, events, finished,
                   last_event, last_finished, percent, downloaded_file>>
    /\ DownloadUnchanged

\* Mutant of DownloadFetchInfo: the `if info_only: return` is missing.
DownloadFetchInfo_no_return ==
    /\ pc = "dl_info"
    /\ \E oc \in Outcomes :
          LET r == YouTubeDownloader_get_video_info(args.url, oc)
          IN  /\ calls' = calls \o r.calls
              /\ IF r.res # "ok" THEN Fail(r)
                 ELSE /\ pc' = IF args.list_formats THEN "dl_formats"
                               ELSE "dl_start"
                      /\ UNCHANGED <<console, exit_status>>
    /\ UNCHANGED <<fs, written, removed, hook_file, events, finished,
                   last_event, last_finished, percent, downloaded_file>>
    /\ DownloadUnchanged

\* cli.py 131-136: the metadata fetch, and the --info-only return
DownloadFetchInfo ==
    /\ pc = "dl_info"
    /\ \E oc \in Outcomes :
          LET r == YouTubeDownloader_get_video_info(args.url, oc)
          IN  /\ calls' = calls \o r.calls
              /\ IF r.res # "ok" THEN Fail(r)
                 ELSE IF args.info_only THEN Exit(0, <<"Video Information">>)
                 ELSE /\ pc' = IF args.list_formats THEN "dl_formats"
                               ELSE "dl_start"
                      /\ UNCHANGED <<console, exit_status>>
    /\ UNCHANGED <<fs, written, removed, hook_file, events, finished,
                   last_event, last_finished, percent, downloaded_file>>
    /\ DownloadUnchanged

\* cli.py 139-142: --list-formats
DownloadListFormats ==
    /\ pc = "dl_formats"
    /\ \E oc \in Outcomes :
          LET r == list_formats(args.url, oc)
          IN  /\ calls' = calls \o r.calls
              /\ IF r.res # "ok" THEN Fail(r)
                 ELSE Exit(0, <<"Available Formats">>)
    /\ UNCHANGED <<fs, written, removed, hook_file, events, finished,
                   last_event, last_finished, percent, downloaded_file>>
    /\ DownloadUnchanged

\* cli.py 145-149, downloader.py 88-109 / 130-156: download or
\* download_audio_only installs its hook and enters ydl.download
DownloadStart ==
    /\ pc = "dl_start"
    /\ pc' = "dl_run"
    /\ calls' = Append(calls, Call("download", args.url, <<>>, "running"))
    /\ hook_file' = None
    /\ console' = IF args.audio_only
                  THEN Append(console, "Audio-only mode enabled") ELSE console
    /\ UNCHANGED <<fs, written, removed, events, finished, last_event,
                   last_finished, percent, downloaded_file, exit_status>>
    /\ DownloadUnchanged

\* downloader.py 117 / 169: the wrapper of every Exception of a download
DownloadFailed(a) ==
    IF a.audio_only THEN "Error: Audio download failed"
    ELSE "Error: Download failed"

\* The engine delivers one progress event to the hook (downloader.py 93-101,
\* 140-148).  An exception of the hook leaves ydl.download and is wrapped by
\* the `except Exception` of download (116-117, 168-169).
EngineProgress ==
    /\ pc = "dl_run"
    /\ events < MaxEvents
    /\ \E d \in ProgressEvents :
          LET h == progress_hook(d, hook_file)
          IN  /\ events' = events + 1
              /\ finished' = IF d.status = "finished" THEN finished + 1
                             ELSE finished
              /\ last_event' = Some(d)
              /\ last_finished' = IF d.status = "finished"
                                  THEN Some(d.filename) ELSE last_finished
              /\ hook_file' = h.file
              /\ percent' = IF h.printed # None THEN h.printed ELSE percent
              /\ IF h.raised
                 THEN /\ calls' = [calls EXCEPT ![Len(calls)].result = "fail"]
                      /\ Fail(Raise("RuntimeError", DownloadFailed(args)))
                 ELSE UNCHANGED <<calls, pc, console, exit_status>>
    /\ UNCHANGED <<fs, written, removed, downloaded_file>>
    /\ DownloadUnchanged

\* ydl.download returns, raises or is interrupted; final is the output file
\* the engine leaves when it returns.  Then downloader.py 111-114 / 158-166.
EngineFinish ==
    /\ pc = "dl_run"
    /\ \E oc \in Outcomes, final \in EngineFiles :
          LET files == fs \cup {final}
              r == IF args.audio_only
                   THEN download_audio_only_result(hook_file, files)
                   ELSE download_result(hook_file)
          IN  IF oc = "ok"
              THEN /\ calls' = [calls EXCEPT ![Len(calls)].result = "ok",
                                             ![Len(calls)].dst = final]
                   /\ fs' = files
                   /\ written' = written \cup {final}
                   /\ IF r.res = "ok"
                      THEN /\ downloaded_file' = r.path
                           /\ pc' = "dl_trim"
                           /\ UNCHANGED <<console, exit_status>>
                      ELSE /\ Fail(Raise("RuntimeError", DownloadFailed(args)))
                           /\ UNCHANGED downloaded_file
              ELSE /\ calls' = [calls EXCEPT ![Len(calls)].result = oc]
                   /\ Fail(Ran(calls'[Len(calls)], DownloadFailed(args)))
                   /\ UNCHANGED <<fs, written, downloaded_file>>
    /\ UNCHANGED <<removed, hook_file, events, finished, last_event,
                   last_finished, percent>>
    /\ DownloadUnchanged

\* cli.py 160-177: the trim the flags ask for, on the downloaded file
download_trim(files, a, input_file, edited_file, pr, oc) ==
    LET range == parse_time_range(a.trim[1])
        both == range.start # None /\ range.end # None
    IN  IF a.trim_start # None
        THEN remove_start(files, input_file, edited_file, a.trim_start[1], oc)
        ELSE IF a.trim_end # None
        THEN remove_end(files, input_file, edited_file, a.trim_end[1], pr, oc)
        ELSE IF TruthyStr(a.trim)
        THEN IF range.err THEN Raise("ValueError", range.msg)
             ELSE trim_video(files, input_file, edited_file, range.start,
                             IF both THEN None ELSE range.end,
                             IF both THEN Some(range.end[1] - range.start[1])
                             ELSE None,
                             oc)
        ELSE Returned

\* cli.py 152-177 and 184: the trim block, or success when no trim flag is
\* truthy
DownloadTrim ==
    /\ pc = "dl_trim"
    /\ IF ~(TruthyNum(args.trim_start) \/ TruthyNum(args.trim_end)
            \/ TruthyStr(args.trim))
       THEN /\ Exit(0, <<"Download completed successfully!">>)
            /\ UNCHANGED <<calls, fs, written>>
       ELSE \E ck \in Outcomes, oc \in Outcomes,
               pr \in [result : Outcomes, duration : ProbeDurations] :
               LET editor == VideoEditor_init(ck)
                   edited_file == generate_output_filename(
                                      downloaded_file, <<"_trimmed">>, <<>>, <<>>)
                   r == download_trim(fs, args, downloaded_file, edited_file,
                                      pr, oc)
               IN  /\ pr.result = "ok" => downloaded_file \in fs
                   /\ IF editor.res # "ok"
                      THEN /\ calls' = calls \o editor.calls
                           /\ Fail(editor)
                           /\ UNCHANGED <<fs, written>>
                      ELSE /\ calls' = calls \o editor.calls \o r.calls
                           /\ fs' = fs \cup Produced(r)
                           /\ written' = written \cup Produced(r)
                           /\ IF r.res # "ok" THEN Fail(r)
                              ELSE /\ pc' = "dl_prompt"
                                   /\ UNCHANGED <<console, exit_status>>
    /\ UNCHANGED <<removed, hook_file, events, finished, last_event,
                   last_finished, percent,
                   downloaded_file>>
    /\ DownloadUnchanged

\* cli.py 180-184: the prompt, the removal of the original, success
DownloadPrompt ==
    /\ pc = "dl_prompt"
    /\ \E response \in Answers :
          /\ calls' = Append(calls, Call("prompt", <<>>, <<>>, response))
          /\ IF confirm_action(response, FALSE)
             THEN /\ Exit(0, <<"Download completed successfully!">>)
                  /\ UNCHANGED <<fs, removed>>
             ELSE IF downloaded_file \in fs
             THEN /\ fs' = fs \ {downloaded_file}
                  /\ removed' = removed \cup {downloaded_file}
                  /\ Exit(0, <<"Removed original file",
                               "Download completed successfully!">>)
             ELSE /\ Fail(Raise("FileNotFoundError", "Error: No such file"))
                  /\ UNCHANGED <<fs, removed>>
    /\ UNCHANGED <<written, hook_file, events, finished, last_event,
                   last_finished, percent,
                   downloaded_file>>
    /\ DownloadUnchanged

----------------------------------------------------------------------------
(* cli.edit *)

EditUnchanged ==
    UNCHANGED <<cmd, args, removed, hook_file, events, finished, last_event,
                last_finished, percent, downloaded_file,
                unit, unit_arg, unit_results>>

\* cli.py 248-251: the trim-option check
EditValidate ==
    /\ pc = "start" /\ cmd = "edit"
    /\ IF MultipleTrim(args)
       THEN Exit(1, <<"Cannot specify multiple trim options">>)
       ELSE pc' = "e_init" /\ UNCHANGED <<console, exit_status>>
    /\ UNCHANGED <<calls, fs, written, output, final_output, operations>>
    /\ EditUnchanged

\* cli.py 254-263: VideoEditor(), then --info or the start of the edits
EditInit ==
    /\ pc = "e_init"
    /\ \E ck \in Outcomes :
          LET editor == VideoEditor_init(ck)
          IN  /\ calls' = calls \o editor.calls
              /\ IF editor.res # "ok"
                 THEN Fail(editor) /\ UNCHANGED final_output
                 ELSE /\ pc' = IF args.info THEN "e_info" ELSE "e_trim"
                      /\ final_output' = IF args.info THEN final_output
                                         ELSE args.input_file
                      /\ UNCHANGED <<console, exit_status>>
    /\ UNCHANGED <<fs, written, output, operations>>
    /\ EditUnchanged

\* cli.py 257-260: --info
EditInfo ==
    /\ pc = "e_info"
    /\ \E pr \in [result : Outcomes, duration : ProbeDurations] :
          LET r == VideoEditor_get_video_info(args.input_file, pr)
          IN  /\ calls' = calls \o r.calls
              /\ IF r.res # "ok" THEN Fail(r)
                 ELSE Exit(0, <<"Video Information">>)
    /\ UNCHANGED <<fs, written, output, final_output, operations>>
    /\ EditUnchanged

\* Mutant of EditStep: `final_output = output` is forgotten, so the next
\* sub-operation reads the previous input again.
EditStep_stale(r, out, label, next) ==
    /\ calls' = calls \o r.calls
    /\ fs' = fs \cup Produced(r)
    /\ written' = written \cup Produced(r)
    /\ IF r.res # "ok"
       THEN /\ Fail(r)
            /\ UNCHANGED <<output, final_output, operations>>
       ELSE /\ output' = out
            /\ UNCHANGED final_output
            /\ operations' = Append(operations, label)
            /\ pc' = next
            /\ UNCHANGED <<console, exit_status>>

\* Mutant of EditStep: a sub-operation that raised is reported and edit goes
\* on with its next section.
EditStep_continue(r, out, label, next) ==
    /\ calls' = calls \o r.calls
    /\ fs' = fs \cup Produced(r)
    /\ written' = written \cup Produced(r)
    /\ IF r.res = "interrupt"
       THEN /\ Fail(r)
            /\ UNCHANGED <<output, final_output, operations>>
       ELSE IF r.res = "error"
       THEN /\ console' = Append(console, r.msg)
            /\ pc' = next
            /\ UNCHANGED <<output, final_output, operations, exit_status>>
       ELSE /\ output' = out
            /\ final_output' = out
            /\ operations' = Append(operations, label)
            /\ pc' = next
            /\ UNCHANGED <<console, exit_status>>

\* The step of edit after one sub-operation returned r with output path out:
\* on success the locals advance and the next section follows.
EditStep(r, out, label, next) ==
    /\ calls' = calls \o r.calls
    /\ fs' = fs \cup Produced(r)
    /\ written' = written \cup Produced(r)
    /\ IF r.res # "ok"
       THEN /\ Fail(r)
            /\ UNCHANGED <<output, final_output, operations>>
       ELSE /\ output' = out
            /\ final_output' = out
            /\ operations' = Append(operations, label)
            /\ pc' = next
            /\ UNCHANGED <<console, exit_status>>

EditSkip(next) ==
    /\ pc' = next
    /\ UNCHANGED <<calls, fs, written, output, final_output, operations,
                   console, exit_status>>

\* Mutant of edit_trim: `end_time = None` is forgotten when the duration is
\* derived, so trim_video gets both end and duration.
edit_trim_keep_end(files, a, input_file, out, pr, oc) ==
    LET range == parse_time_range(a.trim[1])
        both == range.start # None /\ range.end # None
    IN  IF a.trim_start # None
        THEN remove_start(files, input_file, out, a.trim_start[1], oc)
        ELSE IF a.trim_end # None
        THEN remove_end(files, input_file, out, a.trim_end[1], pr, oc)
        ELSE IF range.err THEN Raise("ValueError", range.msg)
        ELSE trim_video(files, input_file, out, range.start, range.end,
                        IF both THEN Some(range.end[1] - range.start[1])
                        ELSE None,
                        oc)

\* cli.py 266-292: the trim the flags ask for, on the input file
edit_trim(files, a, input_file, out, pr, oc) ==
    LET range == parse_time_range(a.trim[1])
        both == range.start # None /\ range.end # None
    IN  IF a.trim_start # None
        THEN remove_start(files, input_file, out, a.trim_start[1], oc)
        ELSE IF a.trim_end # None
        THEN remove_end(files, input_file, out, a.trim_end[1], pr, oc)
        ELSE IF range.err THEN Raise("ValueError", range.msg)
        ELSE trim_video(files, input_file, out, range.start,
                        IF both THEN None ELSE range.end,
                        IF both THEN Some(range.end[1] - range.start[1])
                        ELSE None,
                        oc)

\* cli.py 266-292
EditTrim ==
    /\ pc = "e_trim"
    /\ IF args.trim_start # None \/ args.trim_end # None \/ TruthyStr(args.trim)
       THEN \E oc \in Outcomes,
               pr \in [result : Outcomes, duration : ProbeDurations] :
               LET out == IF output = <<>>
                          THEN generate_output_filename(
                                   args.input_file, <<"_trimmed">>, <<>>, <<>>)
                          ELSE output
               IN  EditStep(edit_trim(fs, args, args.input_file, out, pr, oc),
                            out, "trim", "e_convert")
       ELSE EditSkip("e_convert")
    /\ EditUnchanged

\* cli.py 303-311: the codec pair of a target format
codec_map(convert_to) ==
    CASE convert_to = "mp4" -> <<"libx264", "aac">>
      [] convert_to = "avi" -> <<"libx264", "mp3">>
      [] convert_to = "mkv" -> <<"libx264", "aac">>
      [] convert_to = "mov" -> <<"libx264", "aac">>
      [] convert_to = "webm" -> <<"libvpx-vp9", "libopus">>
      [] OTHER -> <<"libx264", "aac">>

\* cli.py 296-300: the output path of the conversion
convert_output(input_file, out, convert_to) ==
    IF out = <<>>
    THEN generate_output_filename(input_file, <<"_converted">>,
                                  <<convert_to>>, <<>>)
    ELSE IF ~EndsWith(out, <<".", convert_to>>)
    THEN SplitExtRoot(out) \o <<".", convert_to>>
    ELSE out

\* cli.py 295-314
EditConvert ==
    /\ pc = "e_convert"
    /\ IF args.convert_to # ""
       THEN \E oc \in Outcomes :
               LET out == convert_output(args.input_file, output,
                                         args.convert_to)
                   codecs == codec_map(args.convert_to)
               IN  EditStep(convert_format(fs, final_output, out, codecs[1],
                                           codecs[2], oc),
                            out, "convert", "e_resize")
       ELSE EditSkip("e_resize")
    /\ EditUnchanged

\* cli.py 321-334: the resize the --resize value asks for.  res "invalid"
\* stands for the 'Invalid resize format' message and sys.exit(1): the value
\* has neither form, or the ValueError of the try block at 326-331 (int(),
\* the unpacking of the two parts, resize_video's own check).
edit_resize(files, resize, input_file, out, oc) ==
    LET parts == Split(resize, "x")
        invalid == [res |-> "invalid", err |-> "ValueError",
                    msg |-> "Invalid resize format", calls |-> <<>>]
        r == resize_video(files, input_file, out, Some(NumberOf(parts[1])),
                          Some(NumberOf(parts[2])), None, oc)
    IN  IF EndsWith(resize, <<"p">>)
        THEN resize_video(files, input_file, out, None, None, Some(resize), oc)
        ELSE IF \E i \in 1..Len(resize) : resize[i] = "x"
        THEN IF Len(parts) # 2 \/ \E i \in 1..Len(parts) : ~IsNumeral(parts[i])
             THEN invalid
             ELSE IF r.res = "error" /\ r.err = "ValueError" THEN invalid
             ELSE r
        ELSE invalid

\* cli.py 317-337
EditResize ==
    /\ pc = "e_resize"
    /\ IF TruthyStr(args.resize)
       THEN \E oc \in Outcomes :
               LET out == IF output = <<>>
                          THEN generate_output_filename(
                                   args.input_file, <<"_resized">>, <<>>, <<>>)
                          ELSE output
                   r == edit_resize(fs, args.resize[1], final_output, out, oc)
               IN  IF r.res = "invalid"
                   THEN /\ Exit(1, <<r.msg>>)
                        /\ UNCHANGED <<calls, fs, written, output,
                                       final_output, operations>>
                   ELSE EditStep(r, out, "resize", "e_extract")
       ELSE EditSkip("e_extract")
    /\ EditUnchanged

\* cli.py 340-351: --extract-audio, then the report
EditExtract ==
    /\ pc = "e_extract"
    /\ \E oc \in Outcomes :
          LET audio_output == generate_output_filename(
                                  args.input_file, <<"_audio">>, <<"mp3">>, <<>>)
              r == IF args.extract_audio
                   THEN extract_audio(fs, final_output, audio_output, "mp3", oc)
                   ELSE Returned
              ops == IF args.extract_audio THEN Append(operations, "extract")
                     ELSE operations
          IN  /\ calls' = calls \o r.calls
              /\ fs' = fs \cup Produced(r)
              /\ written' = written \cup Produced(r)
              /\ IF r.res # "ok"
                 THEN Fail(r) /\ UNCHANGED operations
                 ELSE /\ operations' = ops
                      /\ Exit(0, IF ops # <<>>
                                 THEN <<"Video editing completed!">>
                                 ELSE <<"No operations specified">>)
    /\ UNCHANGED <<output, final_output>>
    /\ EditUnchanged

----------------------------------------------------------------------------
(* cli.extract_audio, cli.info, cli.formats *)

\* cli.py 385-400
ExtractAudioCmd ==
    /\ pc = "start" /\ cmd = "extract_audio"
    /\ \E ck \in Outcomes, oc \in Outcomes :
          LET editor == VideoEditor_init(ck)
              out == IF output = <<>>
                     THEN generate_output_filename(
                              args.input_file, <<"_audio">>, <<args.format>>,
                              <<>>)
                     ELSE output
              r == extract_audio(fs, args.input_file, out, args.format, oc)
          IN  IF editor.res # "ok"
              THEN /\ calls' = calls \o editor.calls
                   /\ Fail(editor)
                   /\ UNCHANGED <<fs, written, output>>
              ELSE /\ calls' = calls \o editor.calls \o r.calls
                   /\ fs' = fs \cup Produced(r)
                   /\ written' = written \cup Produced(r)
                   /\ output' = out
                   /\ IF r.res # "ok" THEN Fail(r)
                      ELSE Exit(0, <<"Audio extraction completed!">>)
    /\ UNCHANGED <<final_output, operations>>
    /\ EditUnchanged

\* cli.py 418-434
InfoCmd ==
    /\ pc = "start" /\ cmd = "info"
    /\ IF ~validate_youtube_url(args.url)
       THEN Exit(1, <<"Invalid YouTube URL">>) /\ UNCHANGED calls
       ELSE \E oc \in Outcomes :
               LET r == YouTubeDownloader_get_video_info(args.url, oc)
               IN  /\ calls' = calls \o r.calls
                   /\ IF r.res # "ok" THEN Fail(r)
                      ELSE Exit(0, <<"Video Information">>)
    /\ UNCHANGED <<fs, written, output, final_output, operations>>
    /\ EditUnchanged

\* cli.py 452-468
FormatsCmd ==
    /\ pc = "start" /\ cmd = "formats"
    /\ IF ~validate_youtube_url(args.url)
       THEN Exit(1, <<"Invalid YouTube URL">>) /\ UNCHANGED calls
       ELSE \E oc \in Outcomes :
               LET r == list_formats(args.url, oc)
               IN  /\ calls' = calls \o r.calls
                   /\ IF r.res # "ok" THEN Fail(r)
                      ELSE Exit(0, <<"Available Formats">>)
    /\ UNCHANGED <<fs, written, output, final_output, operations>>
    /\ EditUnchanged

----------------------------------------------------------------------------
Next ==
    \/ DownloadValidate
    \/ DownloadInit
    \/ DownloadFetchInfo
    \/ DownloadListFormats
    \/ DownloadStart
    \/ EngineProgress
    \/ EngineFinish
    \/ DownloadTrim
    \/ DownloadPrompt
    \/ EditValidate
    \/ EditInit
    \/ EditInfo
    \/ EditTrim
    \/ EditConvert
    \/ EditResize
    \/ EditExtract
    \/ ExtractAudioCmd
    \/ InfoCmd
    \/ FormatsCmd

Spec == Init /\ [][Next]_vars

----------------------------------------------------------------------------
(* The pure functions of the adapters, called on their own *)

\* Bound on the successive calls of one function with one argument.
MaxApplications == 2

\* Quality tokens: the nine of quality_map, and others (a raw selector, a
\* different case, a resolution outside the table, the empty string)
QualityTokens ==
    { <<"best">>, <<"worst">>, <<"audio">> }
    \cup { <<n, "p">> : n \in Heights }
    \cup { <<"bv*", "+", "ba">>, <<"22">>, <<"BEST">>, <<"2160", "p">>,
           <<"720">>, <<>> }

\* URLs: the four hosts of the list in either case, other hosts, a port, a
\* user name, no scheme, no "//", the empty string
UrlInputs ==
    Urls \cup
    { <<"https:", "//", h, "/", "watch">> :
          h \in {"www.youtube.com", "m.youtube.com", "youtu.be",
                 "WWW.YouTube.com", "music.youtube.com",
                 "youtube.com.evil.com"} }
    \cup
    { <<"//", "youtu.be", "/", "abc">>,
      <<"https:", "//", "m.youtube.com">>,
      <<"https:", "//", "user", "@", "youtu.be", "/", "abc">>,
      <<"https:", "//", "example.com", "/", "youtube.com">>,
      <<"https:", "youtube.com", "/", "watch">>,
      <<>> }

\* Time ranges: the --trim strings, more forms of a time, closed and open
\* ranges, too many ":" parts, text, more than one "-"
TimeRangeInputs ==
    TrimStrings \cup
    { <<"10", "-", "30">>,
      <<"30">>,
      <<"1", ":", "30">>,
      <<"0", "-", "5">>,
      <<"40", "-", "10">>,
      <<"1", ":", "30", ":", "45", "-">>,
      <<"-", "1", ":", "30", ":", "45">>,
      <<"1", ":", "2", "-", "1", ":", "0", ":", "5">>,
      <<"1", ":", "2", ":", "5", ":", "10", "-", "30">>,
      <<"10", "-", "1", ":", "2", ":", "5", ":", "10">>,
      <<"abc", "-", "30">>,
      <<"10", ":", "abc", "-", "30">>,
      <<":", "-", "30">>,
      <<"10", "-", "30", ":">>,
      <<"10", "-", "20", "-", "30">>,
      <<"-", "10", "-", "30">>,
      <<"10", "-", "30", "-">>,
      <<"10", "-", "-", "30">>,
      <<"-", "-", "30">>,
      <<"-", "-">> }

Units == {"_parse_quality", "validate_youtube_url", "parse_time_range"}

UnitInputs(u) ==
    CASE u = "_parse_quality" -> QualityTokens
      [] u = "validate_youtube_url" -> UrlInputs
      [] u = "parse_time_range" -> TimeRangeInputs

\* No invocation runs: the variables of an invocation stay at rest.
UnitInit ==
    /\ unit \in Units
    /\ unit_arg \in UnitInputs(unit)
    /\ unit_results = <<>>
    /\ cmd = "" /\ args = NoArgs /\ pc = "idle"
    /\ calls = <<>> /\ fs = {} /\ written = {} /\ removed = {}
    /\ hook_file = None /\ events = 0 /\ finished = 0
    /\ last_event = None /\ last_finished = None /\ percent = None
    /\ downloaded_file = <<>> /\ output = <<>> /\ final_output = <<>>
    /\ operations = <<>> /\ console = <<>> /\ exit_status = None

UnitUnchanged ==
    UNCHANGED <<cmd, args, pc, calls, fs, written, removed, hook_file, events,
                finished, last_event, last_finished, percent, downloaded_file,
                output, final_output, operations, console, exit_status,
                unit, unit_arg>>

\* One call of _parse_quality (downloader.py 40-53)
Apply_parse_quality ==
    /\ unit = "_parse_quality"
    /\ Len(unit_results) < MaxApplications
    /\ unit_results' = Append(unit_results, _parse_quality(unit_arg))
    /\ UnitUnchanged

\* One call of validate_youtube_url (downloader.py 203-225)
Apply_validate_youtube_url ==
    /\ unit = "validate_youtube_url"
    /\ Len(unit_results) < MaxApplications
    /\ unit_results' = Append(unit_results, validate_youtube_url(unit_arg))
    /\ UnitUnchanged

\* One call of parse_time_range (editor.py 386-410)
Apply_parse_time_range ==
    /\ unit = "parse_time_range"
    /\ Len(unit_results) < MaxApplications
    /\ unit_results' = Append(unit_results, parse_time_range(unit_arg))
    /\ UnitUnchanged

UnitNext ==
    \/ Apply_parse_quality
    \/ Apply_validate_youtube_url
    \/ Apply_parse_time_range

UnitSpec == UnitInit /\ [][UnitNext]_vars

----------------------------------------------------------------------------
(* Properties *)

IsTranscode(c) == c.kind \in TranscodeKinds
\* The transcode calls made so far, in order
Transcodes == SelectSeq(calls, IsTranscode)
CallsOfKind(kinds) == {i \in 1..Len(calls) : calls[i].kind \in kinds}
LastMessage == IF console = <<>> THEN "" ELSE console[Len(console)]
\* How many of --trim-start, --trim-end, --trim the command line carries
SuppliedTrims(a) ==
    (IF a.trim_start # None THEN 1 ELSE 0) + (IF a.trim_end # None THEN 1 ELSE 0)
    + (IF a.trim # None THEN 1 ELSE 0)

ValidationMessages ==
    {"Invalid YouTube URL", "Cannot specify multiple trim options",
     "Error: Invalid time range format", "Error: Invalid time format",
     "Invalid resize format"}

\* C1: in download and edit, an invocation that ended with a validation
\* failure (invalid URL, several trim options, malformed trim string,
\* malformed --resize value) exited with status 1 without having made a
\* metadata fetch, a download or a transcode and without having written a
\* file.
C1_ValidationBeforeEngine ==
    (cmd \in {"download", "edit"} /\ pc = "done"
        /\ LastMessage \in ValidationMessages)
    => /\ exit_status = Some(1)
       /\ CallsOfKind({"fetch", "download"} \cup TranscodeKinds) = {}
       /\ written = {}

C3_OutputDiffersFromInput ==
    cmd = "edit" =>
        \A i \in CallsOfKind(TranscodeKinds) : calls[i].src # calls[i].dst

\* C4: an invocation makes at most one metadata fetch, at most one download
\* and at most four transcode calls.
C4_CallCounts ==
    /\ Cardinality(CallsOfKind({"fetch"})) <= 1
    /\ Cardinality(CallsOfKind({"download"})) <= 1
    /\ Cardinality(CallsOfKind(TranscodeKinds)) <= 4

\* C5: a download invocation in which an interrupt arrived at a blocking
\* point (fetch, download, probe, trim, prompt) ends with a non-zero status
\* and has deleted no file it had completely written.
C5_InterruptKeepsFiles ==
    (cmd = "download" /\ pc = "done"
        /\ \E i \in 1..Len(calls) : calls[i].result = "interrupt")
    => /\ exit_status # Some(0)
       /\ removed \cap written = {}

Rank(kind) ==
    CASE kind = "trim" -> 1 [] kind = "convert" -> 2 [] kind = "resize" -> 3
      [] kind = "extract" -> 4 [] OTHER -> 0

\* C6: in edit, the transcode calls run in the order trim, convert, resize,
\* extract-audio; the first reads the original input file and each later one
\* reads the output path of the one before it; and an invocation that ends
\* with status 0 has run exactly the requested sub-operations.
C6_OrderAndChaining ==
    cmd = "edit" =>
        LET t == Transcodes
            ran == {t[i].kind : i \in 1..Len(t)}
        IN  /\ \A i \in 1..Len(t) :
                  IF i = 1 THEN t[i].src = args.input_file
                  ELSE /\ Rank(t[i-1].kind) < Rank(t[i].kind)
                       /\ t[i].src = t[i-1].dst
                       /\ t[i-1].result = "ok"
            /\ (pc = "done" /\ exit_status = Some(0) /\ ~args.info) =>
                  /\ "trim" \in ran <=>
                        (args.trim_start # None \/ args.trim_end # None
                         \/ TruthyStr(args.trim))
                  /\ "convert" \in ran <=> args.convert_to # ""
                  /\ "resize" \in ran <=> TruthyStr(args.resize)
                  /\ "extract" \in ran <=> args.extract_audio

\* C6 witness: an edit that ran all four sub-operations and ended with
\* status 0.
C6_Witness ==
    /\ cmd = "edit" /\ pc = "done" /\ exit_status = Some(0)
    /\ Len(Transcodes) = 4

\* The codec pair of each target format, as the claim states it
C7_Codecs(f) ==
    CASE f = "webm" -> <<"libvpx-vp9", "libopus">>
      [] f = "avi" -> <<"libx264", "mp3">>
      [] OTHER -> <<"libx264", "aac">>

\* C7: edit with --trim START-END (both endpoints), --convert-to F and no
\* --output (and no other sub-operation), once ended with status 0, has made
\* exactly two transcode calls: a trim of the input file into an intermediate
\* file, then a conversion of that file into a different file with
\* extension F, with the codec pair of F.
C7_TrimThenConvert ==
    (/\ cmd = "edit" /\ pc = "done" /\ exit_status = Some(0) /\ ~args.info
     /\ args.output = <<>> /\ args.convert_to # ""
     /\ args.resize = None /\ ~args.extract_audio
     /\ args.trim_start = None /\ args.trim_end = None /\ TruthyStr(args.trim)
     /\ parse_time_range(args.trim[1]).start # None
     /\ parse_time_range(args.trim[1]).end # None)
    => LET t == Transcodes
       IN  /\ Len(t) = 2
           /\ t[1].kind = "trim" /\ t[1].src = args.input_file
           /\ t[1].dst # args.input_file
           /\ t[2].kind = "convert" /\ t[2].src = t[1].dst
           /\ t[2].dst # t[1].dst /\ t[2].dst # args.input_file
           /\ EndsWith(t[2].dst, <<".", args.convert_to>>)
           /\ <<t[2].vcodec, t[2].acodec>> = C7_Codecs(args.convert_to)

\* C8: in download, the downloaded original is deleted if and only if a trim
\* completed successfully and the answer to 'Keep original file?' was a
\* refusal (an answer other than yes, or an empty answer); the prompt is
\* shown only after a successful trim; no other file is ever deleted.
C8_OriginalDeletedIffDeclined ==
    (cmd = "download" /\ pc = "done")
    => LET trimmed == \E i \in CallsOfKind({"trim"}) : calls[i].result = "ok"
           declined == \E i \in CallsOfKind({"prompt"}) :
                           calls[i].result \in {"no", "empty"}
       IN  /\ removed # {} <=> (trimmed /\ declined)
           /\ removed \subseteq {downloaded_file}
           /\ CallsOfKind({"prompt"}) # {} => trimmed
           /\ \A i \in CallsOfKind({"trim"}) : calls[i].dst \notin removed

StepErrors ==
    {"Error: cannot create directory", "Error: Failed to extract video info",
     "Error: Failed to list formats", "Error: Download failed",
     "Error: Audio download failed", "Error: FFmpeg not found",
     "Error: Failed to get video info", "Error: Invalid time range format",
     "Error: Invalid time format", "Error: Input file not found",
     "Error: At least one of start, end, or duration",
     "Error: Cannot specify both end time and duration",
     "Error: Cannot remove", "Error: FFmpeg error during trimming",
     "Error: No such file"}

\* A step of the invocation failed: an engine call raised or was
\* interrupted, or the step printed its error.
StepFailed ==
    \/ \E i \in 1..Len(calls) :
          calls[i].kind # "prompt" /\ calls[i].result \in {"fail", "interrupt"}
    \/ LastMessage \in StepErrors

RemoveEndProbes ==
    IF cmd \in {"download", "edit"} /\ ~args.info /\ args.trim_end # None
    THEN {i \in CallsOfKind({"probe"}) : calls[i].result = "ok"}
    ELSE {}

\* C11: after remove_end probed duration D for --trim-end N: when D - N <= 0
\* the invocation ended with the 'Cannot remove' error, the probe being its
\* last call and no transcode call made; otherwise the probe is followed by
\* the one trim call of the invocation, with end = D - N and neither start
\* nor duration.
C11_RemoveEnd ==
    \A i \in RemoveEndProbes :
        LET D == calls[i].duration[1]
            N == args.trim_end[1]
        IN  IF D - N <= 0
            THEN /\ i = Len(calls)
                 /\ CallsOfKind(TranscodeKinds) = {}
                 /\ pc = "done" /\ exit_status = Some(1)
                 /\ LastMessage = "Error: Cannot remove"
            ELSE /\ i < Len(calls)
                 /\ calls[i+1].kind = "trim"
                 /\ calls[i+1].end = Some(D - N)
                 /\ calls[i+1].start = None /\ calls[i+1].duration = None
                 /\ CallsOfKind({"trim"}) = {i+1}

\* C11 witness: --trim-end 5 on a file probed at 65 s led to a trim to
\* end = 60.
C11_Witness ==
    /\ RemoveEndProbes # {}
    /\ args.trim_end = Some(5)
    /\ \E i \in RemoveEndProbes :
          /\ calls[i].duration = Some(65)
          /\ i < Len(calls) /\ calls[i+1].end = Some(60)

\* C12: no transform operation reaches the engine for an input file that is
\* not on disk: every probe and every transcode call in the log reads a file
\* that existed when the call was made (files only leave the disk through
\* the removal that ends a download), and an invocation whose transform
\* found its input missing ended with the input-file-not-found error.
C12_ExistenceCheckedFirst ==
    /\ \A i \in CallsOfKind({"probe"} \cup TranscodeKinds) :
          calls[i].src \in fs \cup removed
    /\ (cmd = "download" /\ pc = "done" /\ downloaded_file # <<>>
            /\ downloaded_file \notin fs \cup removed
            /\ CallsOfKind({"check"}) # {}
            /\ \A i \in CallsOfKind({"check"}) : calls[i].result = "ok")
       => \/ LastMessage = "Error: Input file not found"
          \/ LastMessage \in {"Error: Invalid time range format",
                              "Error: Invalid time format"}

\* The named-scale table as the claim states it
C13_NamedScale(q) ==
    CASE q = <<"720", "p">> -> <<"hd720">>
      [] q = <<"1080", "p">> -> <<"hd1080">>
      [] q = <<"480", "p">> -> <<"854", ":", "480">>
      [] q = <<"360", "p">> -> <<"640", ":", "360">>

\* C13: in edit with --resize 360p, 480p, 720p or 1080p, the resize call
\* hands the engine the table entry of that quality (hd720, hd1080, 854:480,
\* 640:360) as its scale, never the raw command-line token.
C13_NamedScaleFromTable ==
    (cmd = "edit" /\ TruthyStr(args.resize)
        /\ args.resize[1] \in {<<"360", "p">>, <<"480", "p">>, <<"720", "p">>,
                               <<"1080", "p">>})
    => \A i \in CallsOfKind({"resize"}) :
          /\ calls[i].scale = Some(C13_NamedScale(args.resize[1]))
          /\ calls[i].scale # args.resize

\* A --resize value of the form WIDTHxHEIGHT with both numbers positive
WellFormedSize(v) ==
    /\ Len(v) = 3 /\ v[2] = "x"
    /\ IsNumeral(<<v[1]>>) /\ IsNumeral(<<v[3]>>)
    /\ NumberOf(<<v[1]>>) > 0 /\ NumberOf(<<v[3]>>) > 0

\* C14: in edit with a --resize value not ending in 'p': a resize call is
\* made only for WIDTHxHEIGHT with both positive, and carries exactly that
\* width and height; for every other value no resize call is made, the
\* invocation never ends with status 0, and when every earlier step
\* succeeded it ends with 'Invalid resize format'.
C14_ResizeSizeParsing ==
    (cmd = "edit" /\ ~args.info /\ TruthyStr(args.resize)
        /\ ~EndsWith(args.resize[1], <<"p">>))
    => LET v == args.resize[1]
       IN  IF WellFormedSize(v)
           THEN \A i \in CallsOfKind({"resize"}) :
                   /\ calls[i].width = Some(NumberOf(<<v[1]>>))
                   /\ calls[i].height = Some(NumberOf(<<v[3]>>))
                   /\ calls[i].scale = None
           ELSE /\ CallsOfKind({"resize"}) = {}
                /\ pc = "done" => exit_status = Some(1)
                /\ pc # "e_extract"
                /\ (pc = "done" /\ calls # <<>>
                        /\ \A i \in 1..Len(calls) : calls[i].result = "ok")
                   => LastMessage \in {"Invalid resize format"}
                                      \cup ValidationMessages \cup StepErrors

\* The alternatives of a selector string, in order
Alternatives(selector) == Split(selector, "/")

\* C15: for every resolution token Np, the selector _parse_quality returns
\* has as first alternative the video+audio pair limited to height <= N, as
\* second the single combined stream limited to height <= N, and after them
\* at least one further alternative, none of which carries a height limit.
C15_ThreeTierSelector ==
    (unit = "_parse_quality" /\ Len(unit_arg) = 2 /\ unit_arg[1] \in Heights
        /\ unit_arg[2] = "p")
    => \A k \in 1..Len(unit_results) :
          LET alts == Alternatives(unit_results[k])
              n == unit_arg[1]
          IN  /\ Len(alts) >= 3
              /\ alts[1] = <<"bv*", "[height<=", n, "]", "+", "ba">>
              /\ alts[2] = <<"b", "[height<=", n, "]">>
              /\ \A j \in 3..Len(alts) :
                    \A i \in 1..Len(alts[j]) : alts[j][i] # "[height<="

\* The nine tokens of the quality table
TableTokens ==
    { <<"best">>, <<"worst">>, <<"audio">> } \cup { <<n, "p">> : n \in Heights }

\* C16: every call of _parse_quality returns; for a token of the table the
\* result is a non-empty selector other than the token, for any other token
\* it is the token itself; and successive calls return the same string.
C16_ParseQualityTotal ==
    unit = "_parse_quality"
    => /\ \A k \in 1..Len(unit_results) :
             IF unit_arg \in TableTokens
             THEN unit_results[k] # <<>> /\ unit_results[k] # unit_arg
             ELSE unit_results[k] = unit_arg
       /\ \A k \in 1..Len(unit_results) : unit_results[k] = unit_results[1]
       /\ ENABLED UnitNext \/ Len(unit_results) = MaxApplications

\* C16 witness: an unknown token passed through twice.
C16_Witness ==
    /\ unit = "_parse_quality" /\ unit_arg = <<"bv*", "+", "ba">>
    /\ unit_results = <<unit_arg, unit_arg>>

\* The host part of a URL: what follows "//" up to the next "/", without a
\* user name before "@" and without a port after ":"
HostOf(url) ==
    LET netloc == Netloc(url)
        a == LastIndexOf(netloc, "@")
        hostport == SubSeq(netloc, a + 1, Len(netloc))
        c == IndexOf(hostport, ":")
    IN  IF c = 0 THEN hostport ELSE SubSeq(hostport, 1, c - 1)

\* The host of the URL is, in lower case, one of the four of the list
HostAllowed(url) ==
    LET host == HostOf(url)
    IN  Len(host) = 1 /\ Lower(host[1]) \in youtube_domains

\* The command ended at its URL check
UrlRejected == pc = "done" /\ console = <<"Invalid YouTube URL">>

\* C17: validate_youtube_url returns true exactly when the host of the URL
\* is one of the four hosts of the list, in any case; download, info and
\* formats, once past their URL check, have rejected the URL exactly when
\* its host is not in the list, and a rejection comes with no call at all
\* and exit status 1.
C17_UrlValidation ==
    /\ unit = "validate_youtube_url"
       => \A k \in 1..Len(unit_results) :
             unit_results[k] = HostAllowed(unit_arg)
    /\ (cmd \in {"download", "info", "formats"} /\ pc # "start")
       => /\ UrlRejected <=> ~HostAllowed(args.url)
          /\ UrlRejected => calls = <<>> /\ exit_status = Some(1)

\* C18: in download and edit with a --trim range that parses to
\* (start, end), every trim call carries, when both are present, start and
\* duration = end - start and no end, and otherwise the one value present
\* and no duration; and trim_video's refusal of end together with duration
\* is never the outcome of an invocation.
C18_RangeToTrimArguments ==
    /\ (cmd \in {"download", "edit"} /\ args.trim_start = None
            /\ args.trim_end = None /\ TruthyStr(args.trim)
            /\ ~parse_time_range(args.trim[1]).err)
       => LET range == parse_time_range(args.trim[1])
          IN  \A i \in CallsOfKind({"trim"}) :
                 IF range.start # None /\ range.end # None
                 THEN /\ calls[i].start = range.start
                      /\ calls[i].duration
                            = Some(range.end[1] - range.start[1])
                      /\ calls[i].end = None
                 ELSE /\ calls[i].start = range.start
                      /\ calls[i].end = range.end
                      /\ calls[i].duration = None
    /\ \A i \in CallsOfKind({"trim"}) :
          calls[i].end = None \/ calls[i].duration = None
    /\ LastMessage # "Error: Cannot specify both end time and duration"

\* C18 witness: edit --trim 1:30-2:45 made its trim call with start = 90
\* and duration = 75.
C18_Witness ==
    /\ cmd = "edit" /\ args.trim = Some(<<"1", ":", "30", "-", "2", ":", "45">>)
    /\ \E i \in CallsOfKind({"trim"}) :
          /\ calls[i].start = Some(90) /\ calls[i].duration = Some(75)
          /\ calls[i].end = None

\* A time string as the claim describes it: one to three numeric parts
\* separated by ":"
IsTimeString(str) ==
    LET parts == Split(str, ":")
    IN  /\ Len(parts) <= 3
        /\ \A i \in 1..Len(parts) :
              Len(parts[i]) = 1 /\ parts[i][1] \in DOMAIN NumeralValue

\* SS = seconds, MM:SS = 60*MM + SS, HH:MM:SS = 3600*HH + 60*MM + SS
SecondsOf(str) ==
    LET parts == Split(str, ":")
        n(i) == NumeralValue[parts[i][1]]
    IN  CASE Len(parts) = 1 -> n(1)
          [] Len(parts) = 2 -> 60 * n(1) + n(2)
          [] Len(parts) = 3 -> 3600 * n(1) + 60 * n(2) + n(3)

DashCount(str) == Cardinality({i \in 1..Len(str) : str[i] = "-"})

\* C19: parse_time_range fails, with an error quoting the offending input,
\* when the input has no "-", when a non-empty side of its first "-" is not
\* a time string, and when it holds more than one "-"; in every other case
\* it returns (start, end), each non-empty side converted to seconds and
\* each empty side None.
C19_ParseTimeRange ==
    unit = "parse_time_range"
    => \A k \in 1..Len(unit_results) :
          LET r == unit_results[k]
              i == IndexOf(unit_arg, "-")
              start_str == SubSeq(unit_arg, 1, i - 1)
              end_str == SubSeq(unit_arg, i + 1, Len(unit_arg))
              bad_start == start_str # <<>> /\ ~IsTimeString(start_str)
              bad_end == end_str # <<>> /\ ~IsTimeString(end_str)
          IN  IF i = 0
              THEN r.err /\ r.names = unit_arg
              ELSE IF DashCount(unit_arg) > 1 \/ bad_start \/ bad_end
              THEN r.err /\ r.names \in {unit_arg, start_str, end_str}
              ELSE /\ ~r.err
                   /\ r.start = IF start_str = <<>> THEN None
                                 ELSE Some(SecondsOf(start_str))
                   /\ r.end = IF end_str = <<>> THEN None
                               ELSE Some(SecondsOf(end_str))

\* The error each failing engine call is reported with
EngineErrors ==
    {"Error: Failed to extract video info", "Error: Failed to list formats",
     "Error: Download failed", "Error: Audio download failed",
     "Error: FFmpeg not found", "Error: Failed to get video info",
     "Error: FFmpeg error during trimming",
     "Error: FFmpeg error during conversion",
     "Error: FFmpeg error during resize",
     "Error: FFmpeg error during audio extraction"}

\* The engine calls that failed
FailedCalls ==
    {i \in 1..Len(calls) : calls[i].kind # "prompt" /\ calls[i].result = "fail"}

\* C20: in every command, an engine call that failed is the last call of
\* the invocation (no retry, no later sub-operation), the invocation has
\* ended with exit status 1, and its error was printed exactly once, as the
\* last line.
C20_FailureEndsInvocation ==
    \A i \in FailedCalls :
        /\ i = Len(calls)
        /\ pc = "done" /\ exit_status = Some(1)
        /\ LastMessage \in EngineErrors
        /\ Cardinality({k \in 1..Len(console) : console[k] \in EngineErrors}) = 1

\* C20 witness: an edit whose conversion failed after a successful trim has
\* ended.
C20_Witness ==
    /\ cmd = "edit" /\ pc = "done" /\ Len(calls) = 3
    /\ calls[2].kind = "trim" /\ calls[2].result = "ok"
    /\ calls[3].kind = "convert" /\ calls[3].result = "fail"
    /\ args.resize # None /\ args.extract_audio

\* C21: a download invocation with --info-only or --list-formats makes no
\* download call, no transcode or probe, shows no prompt, and neither
\* produces nor deletes a file, whatever its other flags; once ended, with
\* every metadata fetch it made successful, its exit status is 0.
C21_InfoOnlyShortCircuits ==
    (cmd = "download" /\ (args.info_only \/ args.list_formats))
    => /\ CallsOfKind({"download", "prompt", "check", "probe"}
                      \cup TranscodeKinds) = {}
       /\ fs = {} /\ written = {} /\ removed = {}
       /\ downloaded_file = <<>>
       /\ pc \in {"start", "dl_init", "dl_info", "dl_formats", "done"}
       /\ (pc = "done" /\ CallsOfKind({"fetch"}) # {}
              /\ \A i \in CallsOfKind({"fetch"}) : calls[i].result = "ok")
          => exit_status = Some(0)

\* C21 witness: download --info-only --audio-only --trim-start 5 has ended
\* with status 0 after its metadata fetch.
C21_Witness ==
    /\ cmd = "download" /\ args.info_only /\ args.audio_only
    /\ args.trim_start = Some(5)
    /\ pc = "done" /\ exit_status = Some(0)
    /\ Len(calls) = 1 /\ calls[1].kind = "fetch"

\* A step in which the engine delivered a 'downloading' event to the hook
DownloadingEventStep ==
    /\ events' = events + 1
    /\ last_event'[1].status = "downloading"

\* C22: every step that delivers a 'downloading' event leaves the download
\* running (the hook does not raise and the download does not fail), and
\* reports the percentage downloaded_bytes / total_bytes * 100 when the
\* event carries both sizes with a total that is known and not zero, and
\* nothing otherwise.
C22_DownloadingEventsHarmless ==
    [][DownloadingEventStep
        => LET d == last_event'[1]
           IN  /\ pc' = "dl_run" /\ exit_status' = None
               /\ calls' = calls
               /\ IF d.has_total /\ d.has_downloaded
                       /\ d.total \notin {None, Some(0)}
                  THEN percent' = Some((d.downloaded * 100) \div d.total[1])
                  ELSE percent' = percent]_vars

\* The invocation carries exactly one trim flag, with a value the parsers
\* accept, and asks for the trim to be made
OneTrimFlag ==
    /\ cmd \in {"download", "edit"}
    /\ SuppliedTrims(args) = 1
    /\ args.trim # None
       => TruthyStr(args.trim) /\ ~parse_time_range(args.trim[1]).err
    /\ ~args.info /\ ~args.info_only /\ ~args.list_formats

\* The invocation got past its trim section without an error
PastTrimSection ==
    IF cmd = "download"
    THEN pc = "dl_prompt" \/ (pc = "done" /\ exit_status = Some(0))
    ELSE pc \in {"e_convert", "e_resize", "e_extract"}
         \/ (pc = "done" /\ exit_status = Some(0))

\* The trim call a flag stands for, the same in download and in edit:
\* --trim-start N is start = N; --trim-end N is end = D - N for the probed
\* duration D; --trim A-B is start = A with duration = B - A, and a
\* one-sided range is the side given.
IsTrimOfFlag(i) ==
    LET range == parse_time_range(args.trim[1])
    IN  IF args.trim_start # None
        THEN /\ calls[i].start = args.trim_start
             /\ calls[i].end = None /\ calls[i].duration = None
        ELSE IF args.trim_end # None
        THEN /\ i > 1 /\ calls[i-1].kind = "probe"
             /\ calls[i].start = None /\ calls[i].duration = None
             /\ calls[i].end
                   = Some(calls[i-1].duration[1] - args.trim_end[1])
        ELSE IF range.start # None /\ range.end # None
        THEN /\ calls[i].start = range.start /\ calls[i].end = None
             /\ calls[i].duration = Some(range.end[1] - range.start[1])
        ELSE /\ calls[i].start = range.start /\ calls[i].end = range.end
             /\ calls[i].duration = None

\* C23: with exactly one trim flag (N = 0 included), download and edit
\* alike make the trim call that flag stands for, with the same start, end
\* and duration, and an invocation that got past its trim section has made
\* exactly one trim call.
C23_SameTrimInDownloadAndEdit ==
    OneTrimFlag
    => /\ \A i \in CallsOfKind({"trim"}) : IsTrimOfFlag(i)
       /\ PastTrimSection => Cardinality(CallsOfKind({"trim"})) = 1

\* The suffixes edit gives its output files
OutputSuffixes == {"_trimmed", "_converted", "_resized", "_audio"}

\* dst is <directory of the input>/<stem of the input><suffix><ext>, with
\* ext a dot and what follows it
IsSuffixedSibling(dst, input_file) ==
    LET n == PathName(dst)
        stem == PathStem(input_file)
    IN  /\ PathParent(dst) = PathParent(input_file)
        /\ Len(n) >= Len(stem) + 2
        /\ SubSeq(n, 1, Len(stem)) = stem
        /\ n[Len(stem) + 1] \in OutputSuffixes
        /\ n[Len(stem) + 2] = "."

\* C24: in edit without --output, whatever sub-operations are asked for,
\* every transcode call writes to a path of the form
\* <input directory>/<input stem><suffix><ext> with a non-empty suffix, never
\* to the original input path, and the original input file is never written.
C24_InputNeverOverwritten ==
    (cmd = "edit" /\ args.output = <<>>)
    => /\ \A i \in CallsOfKind(TranscodeKinds) :
             /\ calls[i].dst # args.input_file
             /\ IsSuffixedSibling(calls[i].dst, args.input_file)
       /\ args.input_file \notin written
       /\ args.input_file \in fs

\* C24 witness: an edit of d/clip (no extension) without --output ran all
\* four sub-operations and ended with status 0.
C24_Witness ==
    /\ cmd = "edit" /\ args.output = <<>>
    /\ args.input_file = <<"d", "/", "clip">>
    /\ pc = "done" /\ exit_status = Some(0)
    /\ Len(Transcodes) = 4

====
